---- MODULE Spec2Model ----
(***************************************************************************)
(* A model of gizmo.py: the streaming callback and its marker protocol,    *)
(* the OllamaMCP bridge (one background worker, two queues, one readiness  *)
(* event), the MCPManager registry and the conversational main loop.       *)
(*                                                                         *)
(* Text is a sequence of one-character strings.  The marker of the source  *)
(* is the two code points U+26A1 U+FE0F; they are written "Z" and "V".     *)
(*                                                                         *)
(* The configuration modelled is the default one but for use_mcp, which is *)
(* either: devmode off (manager() prints nothing) and no file attached to  *)
(* a request (the branch of lines 514-518).  voice is off in Spec, as by   *)
(* default, and on in SpecVoice.                                           *)
(***************************************************************************)
EXTENDS Integers, Sequences, FiniteSets, TLC

\* ------------------------------------------------------------------ bounds
\* Total number of characters fed to the callback in one generation.
MaxLen == 5

\* ------------------------------------------------------------------- text
NL == "\n"
SP == " "
Marker == <<"Z", "V">>
\* The escape sequence "\r\033[K" of the detection branch, as one output token.
CLR == "CLR"
Chars == {"a", SP, NL, "Z", "V"}
Whitespace == {SP, NL}

ChunksUpTo(n) == UNION {[1..k -> Chars] : k \in 1..n}

SubText(s, i, j) == [k \in 1..(j - i + 1) |-> s[i + k - 1]]

\* The positions at which the marker starts in s.
MarkerAt(s) == {i \in 1..(Len(s) - 1) : s[i] = Marker[1] /\ s[i + 1] = Marker[2]}

\* "⚡️" in s
HasMarker(s) == MarkerAt(s) # {}

Min(S) == CHOOSE x \in S : \A y \in S : x <= y
Max(S) == CHOOSE x \in S : \A y \in S : x >= y

\* s.split("⚡️")[0]
SplitFirst(s) == IF HasMarker(s) THEN SubText(s, 1, Min(MarkerAt(s)) - 1) ELSE s

\* str.strip(): leading and trailing whitespace removed.
Strip(s) ==
  LET keep == {i \in 1..Len(s) : s[i] \notin Whitespace}
  IN  IF keep = {} THEN <<>> ELSE SubText(s, Min(keep), Max(keep))

RECURSIVE Flatten(_)
Flatten(ws) == IF ws = <<>> THEN <<>> ELSE Head(ws) \o Flatten(Tail(ws))

\* What a terminal shows after the output tokens of out, the cursor being at the
\* end: CLR returns to the start of the current line and erases it.
RECURSIVE Render(_, _)
Render(shown, out) ==
  IF out = <<>> THEN shown
  ELSE IF Head(out) = CLR
       THEN LET nls == {i \in 1..Len(shown) : shown[i] = NL}
            IN  Render(IF nls = {} THEN <<>> ELSE SubText(shown, 1, Max(nls)), Tail(out))
       ELSE Render(Append(shown, Head(out)), Tail(out))

Visible(writes) == Render(<<>>, Flatten(writes))

VARIABLES
  stream_state,   \* the global of gizmo.py:61
  printed,        \* the writes made to the terminal since the last prompt for input
  chunks,         \* the chunks the last generation has passed to the callback
  flips,          \* how often stream went from "true" to "false" since the reset
  wpc,            \* per bridge: where its background thread is in _async_run
  initialized,    \* per bridge: the threading.Event
  tools,          \* per bridge: self.tools
  request_queue,  \* per bridge
  response_queue, \* per bridge
  cur,            \* per bridge: the request the worker has dequeued
  died,           \* per bridge: the worker left through the handler of line 178
  errors,         \* per bridge: the requests whose session.call_tool raised
  call,           \* the blocking bridge operation the calling thread is in
  nextId,         \* the number of requests enqueued so far (names the next one)
  ncalls,         \* the number of call_tool calls made by the bridge's client
  nshut,          \* the number of shutdown calls made by the bridge's client
  pc,             \* where the main thread is
  mcp_manager,    \* whether the global mcp_manager is an MCPManager (not None)
  clients,        \* MCPManager.clients, the server names in insertion order
  all_tools,      \* MCPManager.all_tools: tool name -> server name ("none": absent)
  todo,           \* the servers a loop of the manager has still to visit
  content_str,    \* the text of the turn's first generation
  cont,           \* the pending call of incorporate_tool_results: where it was
                  \* made from and the tool_result it was given
  turns,          \* the number of requests read
  found,          \* the marker is in the text of the turn's first generation
  request,        \* the request the user entered for this turn (0: none yet)
  parsed,         \* what parse_tool_call returned last
  outcome,        \* how the turn's call of mcp_manager.call_tool ended
  voice,          \* the setting `voice` of the configuration
  message,        \* the text of the global `message` (lines 67, 460, 515)
  spoken,         \* the texts handed to f5 since the last line was read
  dispatches,     \* the calls of mcp_manager.call_tool made in this turn
  conts           \* the continuation generations started in this turn

streamVars == <<stream_state, printed, chunks, flips>>
bridgeVars == <<wpc, initialized, tools, request_queue, response_queue, cur, died, errors>>
clientVars == <<call, nextId, ncalls, nshut>>
mgrVars == <<mcp_manager, clients, all_tools, todo>>
voiceVars == <<voice, message, spoken>>
turnVars == <<content_str, cont, turns, found, request, parsed, outcome, dispatches, conts,
              voice, message, spoken>>
mainVars == <<pc, mcp_manager, clients, all_tools, todo,
              content_str, cont, turns, found, request, parsed, outcome, dispatches, conts,
              voice, message, spoken>>
vars == <<stream_state, printed, chunks, flips,
          wpc, initialized, tools, request_queue, response_queue, cur, died, errors,
          call, nextId, ncalls, nshut,
          pc, mcp_manager, clients, all_tools, todo,
          content_str, cont, turns, found, request, parsed, outcome, dispatches, conts,
          voice, message, spoken>>

ResetState == [stream |-> "true", buffer |-> <<>>]

\* streaming_callback(chunk): the state and the writes it leaves.
\* A callback that takes the first code point of the marker for the marker.
CallbackM_FirstCodePoint(st, chunk) ==
  LET buf == st.buffer \o chunk
      hit == \E i \in 1..Len(buf) : buf[i] = Marker[1]
  IN  IF hit /\ st.stream = "true"
      THEN [state |-> [stream |-> "false", buffer |-> buf],
            writes |-> <<<<CLR>>>> \o
                       (IF Strip(SplitFirst(buf)) # <<>>
                        THEN <<Strip(SplitFirst(buf))>> ELSE <<>>)]
      ELSE [state |-> [stream |-> st.stream, buffer |-> buf],
            writes |-> IF st.stream = "true" THEN <<chunk>> ELSE <<>>]

\* A callback that takes the detection branch whenever the marker is in the
\* buffer.
CallbackM_Redetect(st, chunk) ==
  LET buf == st.buffer \o chunk
  IN  IF HasMarker(buf)
      THEN [state |-> [stream |-> "false", buffer |-> buf],
            writes |-> <<<<CLR>>>> \o
                       (IF Strip(SplitFirst(buf)) # <<>>
                        THEN <<Strip(SplitFirst(buf))>> ELSE <<>>)]
      ELSE [state |-> [stream |-> st.stream, buffer |-> buf],
            writes |-> IF st.stream = "true" THEN <<chunk>> ELSE <<>>]

Callback(st, chunk) ==
  LET buf == st.buffer \o chunk
  IN  IF HasMarker(buf) /\ st.stream = "true"
      THEN [state |-> [stream |-> "false", buffer |-> buf],
            writes |-> <<<<CLR>>>> \o
                       (IF Strip(SplitFirst(buf)) # <<>>
                        THEN <<Strip(SplitFirst(buf))>> ELSE <<>>)]
      ELSE [state |-> [stream |-> st.stream, buffer |-> buf],
            writes |-> IF st.stream = "true" THEN <<chunk>> ELSE <<>>]

\* ------------------------------------------------------------- the bridge
Providers == {"p1", "p2"}

\* What each provider answers to list_tools: "s" is listed by both.
Catalog(p) == IF p = "p1" THEN {<<"t">>, <<"s">>} ELSE {<<"u">>, <<"s">>}
ToolNames == {<<"t">>, <<"u">>, <<"s">>, <<"x">>}

\* initialized.wait(timeout=30), in ticks of one second.
ReadyTimeout == 30

Req(t, i) == [tool |-> t, id |-> i, stop |-> FALSE]
\* (None, None)
Sentinel == [tool |-> <<>>, id |-> 0, stop |-> TRUE]
NoReq == [tool |-> <<>>, id |-> 0, stop |-> FALSE]

\* A value on response_queue; "for" names the request it was produced for
\* (0: for none).
Result(k, r) == [kind |-> k, tool |-> r.tool, for |-> r.id]
InitError == [kind |-> "init_error", tool |-> <<>>, for |-> 0]
NoResult == [kind |-> "none", tool |-> <<>>, for |-> 0]

NoCall == [phase |-> "idle", b |-> "p1", req |-> NoReq, waited |-> 0, puts |-> 0,
           value |-> NoResult, error |-> "none"]

\* _async_run, lines 153-156: the transport is up and session.initialize() returned.
WorkerHandshake(p) ==
  /\ wpc[p] = "starting"
  /\ wpc' = [wpc EXCEPT ![p] = "handshaken"]
  /\ UNCHANGED <<initialized, tools, request_queue, response_queue, cur, died, errors>>
  /\ UNCHANGED <<streamVars, clientVars, mainVars>>

\* lines 159-160: list_tools() returned and self.tools holds the catalog.
WorkerListTools(p) ==
  /\ wpc[p] = "handshaken"
  /\ wpc' = [wpc EXCEPT ![p] = "listed"]
  /\ tools' = [tools EXCEPT ![p] = Catalog(p)]
  /\ UNCHANGED <<initialized, request_queue, response_queue, cur, died, errors>>
  /\ UNCHANGED <<streamVars, clientVars, mainVars>>

\* line 162: initialized.set(), then the dispatch loop.
WorkerReady(p) ==
  /\ wpc[p] = "listed"
  /\ wpc' = [wpc EXCEPT ![p] = "serving"]
  /\ initialized' = [initialized EXCEPT ![p] = TRUE]
  /\ UNCHANGED <<tools, request_queue, response_queue, cur, died, errors>>
  /\ UNCHANGED <<streamVars, clientVars, mainVars>>

\* An await of the start-up (the transport, the handshake, the listing) that never
\* completes: the provider does not answer.
WorkerHang(p) ==
  /\ wpc[p] \in {"starting", "handshaken"}
  /\ wpc' = [wpc EXCEPT ![p] = "hung"]
  /\ UNCHANGED <<initialized, tools, request_queue, response_queue, cur, died, errors>>
  /\ UNCHANGED <<streamVars, clientVars, mainVars>>

\* lines 178-181: an exception leaves the two async-with blocks (the transport
\* cannot be established, the handshake or the listing fails, the transport is
\* lost while the loop runs): the handler sets the event and puts one message.
WorkerDie(p) ==
  /\ wpc[p] \in {"starting", "handshaken", "serving", "calling"}
  /\ wpc' = [wpc EXCEPT ![p] = "stopped"]
  /\ initialized' = [initialized EXCEPT ![p] = TRUE]
  /\ response_queue' = [response_queue EXCEPT ![p] = Append(@, InitError)]
  /\ died' = [died EXCEPT ![p] = TRUE]
  /\ UNCHANGED <<tools, request_queue, cur, errors>>
  /\ UNCHANGED <<streamVars, clientVars, mainVars>>

\* lines 166-174: request_queue.get(block=False) found a request.  The sentinel
\* breaks the loop and the thread ends; anything else is passed to the session.
WorkerGet(p) ==
  /\ wpc[p] = "serving"
  /\ request_queue[p] # <<>>
  /\ request_queue' = [request_queue EXCEPT ![p] = Tail(@)]
  /\ IF Head(request_queue[p]).stop
     THEN /\ wpc' = [wpc EXCEPT ![p] = "stopped"]
          /\ cur' = cur
     ELSE /\ wpc' = [wpc EXCEPT ![p] = "calling"]
          /\ cur' = [cur EXCEPT ![p] = Head(request_queue[p])]
  /\ UNCHANGED <<initialized, tools, response_queue, died, errors>>
  /\ UNCHANGED <<streamVars, clientVars, mainVars>>

\* line 174: the await of session.call_tool ends, with a result or an exception.
WorkerSessionReturns(p) ==
  /\ wpc[p] = "calling"
  /\ wpc' = [wpc EXCEPT ![p] = "call_returned"]
  /\ UNCHANGED <<initialized, tools, request_queue, response_queue, cur, died, errors>>
  /\ UNCHANGED <<streamVars, clientVars, mainVars>>

WorkerSessionRaises(p) ==
  /\ wpc[p] = "calling"
  /\ wpc' = [wpc EXCEPT ![p] = "call_raised"]
  /\ errors' = [errors EXCEPT ![p] = @ \cup {cur[p].id}]
  /\ UNCHANGED <<initialized, tools, request_queue, response_queue, cur, died>>
  /\ UNCHANGED <<streamVars, clientVars, mainVars>>

\* line 174: the provider never answers: the await does not end.
WorkerSessionHangs(p) ==
  /\ wpc[p] = "calling"
  /\ wpc' = [wpc EXCEPT ![p] = "call_hung"]
  /\ UNCHANGED <<initialized, tools, request_queue, response_queue, cur, died, errors>>
  /\ UNCHANGED <<streamVars, clientVars, mainVars>>

\* line 175: response_queue.put(result), back to the top of the loop.
WorkerPutResult(p) ==
  /\ wpc[p] = "call_returned"
  /\ response_queue' = [response_queue EXCEPT ![p] = Append(@, Result("result", cur[p]))]
  /\ wpc' = [wpc EXCEPT ![p] = "serving"]
  /\ UNCHANGED <<initialized, tools, request_queue, cur, died, errors>>
  /\ UNCHANGED <<streamVars, clientVars, mainVars>>

\* A handler that lets the exception of the session end the loop.
OnSessionErrorM_Break(p) ==
  /\ response_queue' = response_queue
  /\ wpc' = [wpc EXCEPT ![p] = "stopped"]
  /\ died' = [died EXCEPT ![p] = TRUE]

\* lines 176-177: except Exception: response_queue.put("Error: ..."), and the
\* loop goes on.
OnSessionError(p) ==
  /\ response_queue' = [response_queue EXCEPT ![p] = Append(@, Result("error", cur[p]))]
  /\ wpc' = [wpc EXCEPT ![p] = "serving"]
  /\ died' = died

WorkerPutError(p) ==
  /\ wpc[p] = "call_raised"
  /\ OnSessionError(p)
  /\ UNCHANGED <<initialized, tools, request_queue, cur, errors>>
  /\ UNCHANGED <<streamVars, clientVars, mainVars>>

\* ------------------------------------------- OllamaMCP.call_tool / shutdown
\* The steps of the method the calling thread is in.  call.b is the bridge.

\* line 184, the event is set: line 186 puts the request, line 187 waits.
PutRequest(b) ==
  /\ request_queue' = [request_queue EXCEPT ![b] = Append(@, call.req)]
  /\ call' = [call EXCEPT !.phase = "get", !.puts = @ + 1]

CallReady ==
  /\ call.phase = "wait"
  /\ initialized[call.b]
  /\ PutRequest(call.b)
  /\ UNCHANGED <<wpc, initialized, tools, response_queue, cur, died, errors>>
  /\ UNCHANGED <<streamVars, nextId, ncalls, nshut, mainVars>>

\* line 184: a second passes and the event is not set.
CallTick ==
  /\ call.phase = "wait"
  /\ ~initialized[call.b]
  /\ call.waited < ReadyTimeout
  /\ call' = [call EXCEPT !.waited = @ + 1]
  /\ UNCHANGED <<bridgeVars, streamVars, nextId, ncalls, nshut, mainVars>>

\* A call_tool that enqueues its request before it waits for the event.
CallTimeoutM_PutFirst ==
  /\ call.phase = "wait"
  /\ ~initialized[call.b]
  /\ call.waited = ReadyTimeout
  /\ call' = [call EXCEPT !.phase = "raised", !.error = "TimeoutError"]
  /\ request_queue' = [request_queue EXCEPT ![call.b] = Append(@, call.req)]
  /\ UNCHANGED <<wpc, initialized, tools, response_queue, cur, died, errors>>
  /\ UNCHANGED <<streamVars, nextId, ncalls, nshut, mainVars>>

\* lines 184-185: wait() returned False.
CallTimeout ==
  /\ call.phase = "wait"
  /\ ~initialized[call.b]
  /\ call.waited = ReadyTimeout
  /\ call' = [call EXCEPT !.phase = "raised", !.error = "TimeoutError"]
  /\ UNCHANGED <<bridgeVars, streamVars, nextId, ncalls, nshut, mainVars>>

\* lines 187-188: response_queue.get() returns whatever is at the head.
CallGet ==
  /\ call.phase = "get"
  /\ response_queue[call.b] # <<>>
  /\ call' = [call EXCEPT !.phase = "returned", !.value = Head(response_queue[call.b])]
  /\ response_queue' = [response_queue EXCEPT ![call.b] = Tail(@)]
  /\ UNCHANGED <<wpc, initialized, tools, request_queue, cur, died, errors>>
  /\ UNCHANGED <<streamVars, nextId, ncalls, nshut, mainVars>>

\* line 192: thread.join() returns once the thread has ended.
ShutdownJoin ==
  /\ call.phase = "join"
  /\ wpc[call.b] = "stopped"
  /\ call' = [call EXCEPT !.phase = "joined"]
  /\ UNCHANGED <<bridgeVars, streamVars, nextId, ncalls, nshut, mainVars>>

\* ------------------------------------------ a client of one bridge, directly
\* The bridge "p1" used through its own interface by one thread: call_tool any
\* number of times, then shutdown.
MaxCalls == 2
MaxShutdowns == 1

ClientCallTool(t) ==
  /\ call.phase = "idle"
  /\ nshut = 0
  /\ ncalls < MaxCalls
  /\ call' = [NoCall EXCEPT !.phase = "wait", !.b = "p1", !.req = Req(t, nextId + 1)]
  /\ nextId' = nextId + 1
  /\ ncalls' = ncalls + 1
  /\ UNCHANGED <<bridgeVars, nshut, streamVars, mainVars>>

\* call_tool returned or raised: the client has the outcome and goes on.
ClientResume ==
  /\ call.phase \in {"returned", "raised", "joined"}
  /\ call' = NoCall
  /\ UNCHANGED <<bridgeVars, nextId, ncalls, nshut, streamVars, mainVars>>

\* shutdown(), line 191: the sentinel is put; line 192 joins.
ClientShutdown ==
  /\ call.phase = "idle"
  /\ nshut < MaxShutdowns
  /\ request_queue' = [request_queue EXCEPT !["p1"] = Append(@, Sentinel)]
  /\ call' = [NoCall EXCEPT !.phase = "join", !.b = "p1"]
  /\ nshut' = nshut + 1
  /\ UNCHANGED <<wpc, initialized, tools, response_queue, cur, died, errors, nextId, ncalls>>
  /\ UNCHANGED <<streamVars, mainVars>>

InitBridges(started) ==
  /\ wpc = [p \in Providers |-> IF p \in started THEN "starting" ELSE "none"]
  /\ initialized = [p \in Providers |-> FALSE]
  /\ tools = [p \in Providers |-> {}]
  /\ request_queue = [p \in Providers |-> <<>>]
  /\ response_queue = [p \in Providers |-> <<>>]
  /\ cur = [p \in Providers |-> NoReq]
  /\ died = [p \in Providers |-> FALSE]
  /\ errors = [p \in Providers |-> {}]

InitClient ==
  /\ call = NoCall
  /\ nextId = 0
  /\ ncalls = 0
  /\ nshut = 0

\* A line entered at the prompt of line 466: the n-th line read, and its text.
NoRequest == [n |-> 0, text |-> <<>>]

\* No call of incorporate_tool_results is pending.
NoCont == [level |-> 0, failure |-> FALSE, tool_result |-> "none",
           original_request |-> NoRequest, partial_response |-> <<>>]

\* parse_tool_call has not been called.
NoParse == [tool |-> <<>>, args |-> <<>>]

\* The main thread's variables where the main thread is not modelled.
InitMainOff ==
  /\ pc = "off"
  /\ mcp_manager = FALSE
  /\ clients = <<>>
  /\ all_tools = [t \in ToolNames |-> "none"]
  /\ todo = <<>>
  /\ content_str = <<>>
  /\ cont = NoCont
  /\ turns = 0
  /\ found = FALSE
  /\ request = NoRequest
  /\ parsed = NoParse
  /\ outcome = "none"
  /\ voice = FALSE
  /\ message = <<>>
  /\ spoken = <<>>
  /\ dispatches = 0
  /\ conts = 0

InitStreamVars ==
  /\ stream_state = ResetState
  /\ printed = <<>>
  /\ chunks = <<>>
  /\ flips = 0

\* OllamaMCP.__init__ has run for "p1": its thread is started.
InitBridge == InitStreamVars /\ InitBridges({"p1"}) /\ InitClient /\ InitMainOff

NextBridge ==
  \/ WorkerHandshake("p1")
  \/ WorkerListTools("p1")
  \/ WorkerReady("p1")
  \/ WorkerHang("p1")
  \/ WorkerDie("p1")
  \/ WorkerGet("p1")
  \/ WorkerSessionReturns("p1")
  \/ WorkerSessionRaises("p1")
  \/ WorkerSessionHangs("p1")
  \/ WorkerPutResult("p1")
  \/ WorkerPutError("p1")
  \/ CallReady
  \/ CallTick
  \/ CallTimeout
  \/ CallGet
  \/ ShutdownJoin
  \/ \E t \in {<<"t">>} : ClientCallTool(t)
  \/ ClientResume
  \/ ClientShutdown

SpecBridge == InitBridge /\ [][NextBridge]_vars

\* ------------------------------------------------------- parse_tool_call
NameChars == {"a", "t", "u", "s", "x"}

\* The end of the longest run of characters of S in s that starts at i
\* (i - 1 when s[i] is not in S).
RunEnd(s, i, S) ==
  LET stops == {k \in i..Len(s) : s[k] \notin S}
  IN  IF stops = {} THEN Len(s) ELSE Min(stops) - 1

\* The match of the pattern "⚡️([a-zA-Z0-9_-]+)\s*\((\{.*?\})\)" that starts
\* with the marker at i, if there is one: the name, then "(" and "{" after any
\* white space, then the nearest "})".
MatchAt(s, i) ==
  LET n1 == RunEnd(s, i + 2, NameChars)
      w  == RunEnd(s, n1 + 1, Whitespace) + 1
      closes == {j \in (w + 2)..(Len(s) - 1) : s[j] = "}" /\ s[j + 1] = ")"}
  IN  IF /\ n1 >= i + 2
         /\ w + 1 <= Len(s)
         /\ s[w] = "("
         /\ s[w + 1] = "{"
         /\ closes # {}
      THEN [ok |-> TRUE, tool |-> SubText(s, i + 2, n1),
            json |-> SubText(s, w + 1, Min(closes))]
      ELSE [ok |-> FALSE, tool |-> <<>>, json |-> <<>>]

\* json.loads of a text that starts with "{" and ends with "}", over the
\* characters of the model.  "m" stands for the text of one member of an object
\* (such as "k": 1): an object is either empty or has that one member, with
\* white space anywhere between the braces.
IsMember(ch) == ch = "m"
Members(js) == SelectSeq(js, IsMember)
ValidJson(js) ==
  /\ \A k \in 2..(Len(js) - 1) : js[k] \in Whitespace \cup {"m"}
  /\ Len(Members(js)) <= 1

\* The value of json.loads(js), an object as the sequence of its members, or
\* {} where json.loads raises JSONDecodeError (lines 431-435).
LoadArgs(js) == IF ValidJson(js) THEN Members(js) ELSE <<>>

\* parse_tool_call(content): re.search takes the leftmost match.
ParseToolCall(content) ==
  LET hits == {i \in MarkerAt(content) : MatchAt(content, i).ok}
  IN  IF hits = {}
      THEN [tool |-> <<>>, args |-> <<>>]
      ELSE LET m == MatchAt(content, Min(hits))
           IN  [tool |-> m.tool, args |-> LoadArgs(m.json)]

\* ------------------------------------------- parse_tool_call, on its own
\* The longest text that follows the marker and the first character of the name.
MaxArgLen == 5
TailChars == {"a", "(", "{", "}", ")", "m", SP}
ParseInputs ==
  {Marker \o <<"t">> \o tail : tail \in UNION {[1..k -> TailChars] : k \in 0..MaxArgLen}}

InitParse ==
  /\ InitStreamVars
  /\ InitBridges({})
  /\ InitClient
  /\ pc = "parse"
  /\ mcp_manager = FALSE
  /\ clients = <<>>
  /\ all_tools = [t \in ToolNames |-> "none"]
  /\ todo = <<>>
  /\ content_str \in ParseInputs
  /\ cont = NoCont
  /\ turns = 0
  /\ found = FALSE
  /\ request = NoRequest
  /\ parsed = NoParse
  /\ outcome = "none"
  /\ voice = FALSE
  /\ message = <<>>
  /\ spoken = <<>>
  /\ dispatches = 0
  /\ conts = 0

\* line 398: tool_name, arguments = parse_tool_call(content_str)
ParseCall ==
  /\ pc = "parse"
  /\ parsed' = ParseToolCall(content_str)
  /\ pc' = "parse_done"
  /\ UNCHANGED <<mgrVars, content_str, cont, turns, found, request, outcome, dispatches, conts>>
  /\ UNCHANGED <<voiceVars, bridgeVars, streamVars, clientVars>>

NextParse == ParseCall

SpecParse == InitParse /\ [][NextParse]_vars

\* ------------------------------------------------------------ the manager
\* mcp.json names two servers, in this order.
ConfigOrder == <<"p1", "p2">>

\* MCPManager.initialize, lines 211-214: the next server of the configuration;
\* OllamaMCP.__init__ starts its thread; line 216 waits for its event.
MgrConnect ==
  /\ pc = "mcp_init"
  /\ call.phase = "idle"
  /\ todo # <<>>
  /\ wpc' = [wpc EXCEPT ![Head(todo)] = "starting"]
  /\ call' = [NoCall EXCEPT !.phase = "init_wait", !.b = Head(todo)]
  /\ UNCHANGED <<initialized, tools, request_queue, response_queue, cur, died, errors>>
  /\ UNCHANGED <<streamVars, nextId, ncalls, nshut, mainVars>>

\* lines 214 and 226-227: the construction of the client raises; the server is
\* passed over.
MgrConnectRaises ==
  /\ pc = "mcp_init"
  /\ call.phase = "idle"
  /\ todo # <<>>
  /\ todo' = Tail(todo)
  /\ UNCHANGED <<pc, mcp_manager, clients, all_tools, turnVars>>
  /\ UNCHANGED <<bridgeVars, streamVars, clientVars>>

\* A registration that keeps the server a name is already mapped to.
RegisterM_FirstWins(p) ==
  /\ clients' = Append(clients, p)
  /\ all_tools' = [t \in ToolNames |->
                     IF t \in tools[p] /\ all_tools[t] = "none" THEN p ELSE all_tools[t]]

\* lines 216-222: the event is set: the client is recorded and each tool of its
\* catalog is mapped to it.
Register(p) ==
  /\ clients' = Append(clients, p)
  /\ all_tools' = [t \in ToolNames |-> IF t \in tools[p] THEN p ELSE all_tools[t]]

MgrRegister ==
  /\ pc = "mcp_init"
  /\ call.phase = "init_wait"
  /\ initialized[call.b]
  /\ Register(call.b)
  /\ todo' = Tail(todo)
  /\ call' = NoCall
  /\ UNCHANGED <<pc, mcp_manager, turnVars, bridgeVars, streamVars, nextId, ncalls, nshut>>

\* line 216: a second passes and the event is not set.
MgrTick ==
  /\ call.phase = "init_wait"
  /\ ~initialized[call.b]
  /\ call.waited < ReadyTimeout
  /\ call' = [call EXCEPT !.waited = @ + 1]
  /\ UNCHANGED <<bridgeVars, streamVars, nextId, ncalls, nshut, mainVars>>

\* A timeout that ends the loop over the servers.
MgrTimeoutM_Abort ==
  /\ pc = "mcp_init"
  /\ call.phase = "init_wait"
  /\ ~initialized[call.b]
  /\ call.waited = ReadyTimeout
  /\ todo' = <<>>
  /\ call' = NoCall
  /\ UNCHANGED <<pc, mcp_manager, clients, all_tools, turnVars>>
  /\ UNCHANGED <<bridgeVars, streamVars, nextId, ncalls, nshut>>

\* lines 223-224: wait() returned False; the server is passed over.
MgrTimeout ==
  /\ pc = "mcp_init"
  /\ call.phase = "init_wait"
  /\ ~initialized[call.b]
  /\ call.waited = ReadyTimeout
  /\ todo' = Tail(todo)
  /\ call' = NoCall
  /\ UNCHANGED <<pc, mcp_manager, clients, all_tools, turnVars>>
  /\ UNCHANGED <<bridgeVars, streamVars, nextId, ncalls, nshut>>

\* lines 229-233 and 456-459: initialize returns; the greeting is next.
MgrDone ==
  /\ pc = "mcp_init"
  /\ call.phase = "idle"
  /\ todo = <<>>
  /\ pc' = "greet"
  /\ UNCHANGED <<mgrVars, turnVars, bridgeVars, streamVars, clientVars>>

\* MCPManager.call_tool, lines 237-243: the server the name is routed to, or
\* "none" where the method raises ValueError.
RouteM_FirstClient(tool_name) ==
  IF all_tools[tool_name] # "none" THEN all_tools[tool_name]
  ELSE IF clients # <<>> THEN clients[1] ELSE "none"

Route(tool_name) ==
  IF all_tools[tool_name] = "none" THEN "none"
  ELSE IF \E k \in 1..Len(clients) : clients[k] = all_tools[tool_name]
       THEN all_tools[tool_name]
       ELSE "none"

\* -------------------------------------------------------- the main thread
\* The number of requests the user enters before "bye".
MaxTurns == 2

\* What a generation may stream, as its chunks: prose; a call of "t" (served by
\* p1) with the marker split over two chunks; a call of "u" (p2); a call of
\* "s" (listed by both); a call of "x" (listed by none); the marker without a
\* call after it.
CallText(t) == <<"Z", "V">> \o t \o <<"(", "{", "}", ")">>
GenTexts ==
  { << <<"a">> >>,
    << <<"a", "Z">>, <<"V", "t", "(", "{", "}", ")">> >>,
    << CallText(<<"u">>) >>,
    << CallText(<<"s">>) >>,
    << CallText(<<"x">>) >>,
    << <<"a", "Z", "V">>, <<"t">> >> }

\* Task(...).solve() with streaming_callback: the callback is called on each
\* chunk in turn.
RECURSIVE RunCallback(_, _, _)
RunCallback(st, writes, text) ==
  IF text = <<>> THEN [state |-> st, writes |-> writes]
  ELSE LET r == Callback(st, Head(text))
       IN  RunCallback(r.state, writes \o r.writes, Tail(text))

Stream(text) ==
  LET r == RunCallback(stream_state, <<>>, text)
  IN  /\ stream_state' = r.state
      /\ printed' = printed \o r.writes
      /\ chunks' = text
      /\ flips' = IF stream_state.stream = "true" /\ r.state.stream = "false" THEN 1 ELSE 0

\* The state the callback is left in when the generation of text is over.
StreamEnd(text) == RunCallback(stream_state, <<>>, text).state

\* clean_function_text (Libraries/voicehandling.py), over the characters of the
\* model.  Step 1 removes each match of "⚡️[^(]*\(\{[^}]*\}\)": CallEnd is the
\* end of the match that starts with the marker at i, 0 where there is none.
CallEnd(s, i) ==
  LET opens == {j \in (i + 2)..Len(s) : s[j] = "("}
      j == IF opens = {} THEN 0 ELSE Min(opens)
      closes == {k \in (j + 2)..Len(s) : s[k] = "}"}
      k == IF closes = {} THEN 0 ELSE Min(closes)
  IN  IF j > 0 /\ j + 1 <= Len(s) /\ s[j + 1] = "{" /\ k > 0
         /\ k + 1 <= Len(s) /\ s[k + 1] = ")"
      THEN k + 1 ELSE 0

RECURSIVE RemoveCalls(_)
RemoveCalls(s) ==
  LET hits == {i \in MarkerAt(s) : CallEnd(s, i) > 0}
  IN  IF hits = {} THEN s
      ELSE SubText(s, 1, Min(hits) - 1)
           \o RemoveCalls(SubText(s, CallEnd(s, Min(hits)) + 1, Len(s)))

\* remove_emojis drops U+26A1 (category So) and keeps U+FE0F (category Mn);
\* replace_symbols drops the parentheses.
IsSpoken(ch) == ch \notin {"Z", "(", ")"}

\* re.sub(r'\s+', ' ', ...)
RECURSIVE Squeeze(_)
Squeeze(s) ==
  IF s = <<>> THEN <<>>
  ELSE IF Head(s) \in Whitespace
       THEN IF Len(s) > 1 /\ s[2] \in Whitespace
            THEN Squeeze(Tail(s))
            ELSE <<SP>> \o Squeeze(Tail(s))
       ELSE <<Head(s)>> \o Squeeze(Tail(s))

CleanFunctionText(s) == Strip(Squeeze(SelectSeq(RemoveCalls(s), IsSpoken)))

\* voicecheck(), lines 280-291, called with stream_state st and the global
\* message msg: with voice on and the stream live, f5 is called on the cleaned
\* text of message and the main thread is in f5 (at pc `speaking`) until the
\* synthesis and the playback are over; otherwise the thread goes on to `next`.
Voicecheck(st, msg, next, speaking) ==
  IF voice /\ st.stream = "true"
  THEN /\ spoken' = Append(spoken, CleanFunctionText(msg))
       /\ pc' = speaking
  ELSE /\ spoken' = spoken
       /\ pc' = next

\* voice/f5.py, lines 217-225: f5 returns.
SpeechDone ==
  /\ pc \in {"speak_greet", "speak_gen", "speak_cont"}
  /\ pc' = IF pc = "speak_gen" THEN "handle" ELSE "input"
  /\ UNCHANGED <<mgrVars, turnVars, bridgeVars, streamVars, clientVars>>

\* lines 460-461: the greeting.
Greet(text) ==
  /\ pc = "greet"
  /\ Stream(text)
  /\ message' = Flatten(text)
  /\ Voicecheck(StreamEnd(text), Flatten(text), "input", "speak_greet")
  /\ UNCHANGED <<mgrVars, content_str, cont, turns, found, request, parsed, outcome>>
  /\ UNCHANGED <<dispatches, conts, voice, bridgeVars, clientVars>>

\* The lines the user may enter at the prompt of line 466: the exit word in
\* mixed case with white space around it, and a request that begins with it.
InputLines == {<<SP, "B", "y", "E", SP>>, <<"b", "y", "e", "s">>}

\* str.lower(), over the upper-case letters of InputLines.
Lower(ch) == IF ch = "B" THEN "b" ELSE IF ch = "Y" THEN "y" ELSE IF ch = "E" THEN "e" ELSE ch

\* An exit test that compares the line as it was entered.
IsExitWordM_Exact(line) == line = <<"b", "y", "e">>

\* line 467: request.strip().lower() == "bye"
IsExitWord(line) ==
  [i \in 1..Len(Strip(line)) |-> Lower(Strip(line)[i])] = <<"b", "y", "e">>

\* lines 466-468: the user enters the exit word; line 519.
ReadBye(line) ==
  /\ pc = "input"
  /\ IsExitWord(line)
  /\ request' = [n |-> request.n + 1, text |-> line]
  /\ spoken' = <<>>
  /\ pc' = IF mcp_manager THEN "closing" ELSE "exited"
  /\ todo' = clients
  /\ UNCHANGED <<mcp_manager, clients, all_tools, content_str, cont, turns, found, parsed>>
  /\ UNCHANGED <<outcome, dispatches, conts, voice, message>>
  /\ UNCHANGED <<bridgeVars, streamVars, clientVars>>

\* lines 466-492: the user enters a request; the stream state is reset.
ReadRequest(line) ==
  /\ pc = "input"
  /\ ~IsExitWord(line)
  /\ turns < MaxTurns
  /\ turns' = turns + 1
  /\ stream_state' = ResetState
  /\ printed' = <<>>
  /\ chunks' = <<>>
  /\ flips' = 0
  /\ content_str' = <<>>
  /\ cont' = NoCont
  /\ found' = FALSE
  /\ request' = [n |-> request.n + 1, text |-> line]
  /\ parsed' = NoParse
  /\ outcome' = "none"
  /\ spoken' = <<>>
  /\ dispatches' = 0
  /\ conts' = 0
  /\ pc' = "gen"
  /\ UNCHANGED <<mgrVars, voice, message, bridgeVars, clientVars>>

\* lines 515-517: the turn's first generation, then voicecheck().
Generate(text) ==
  /\ pc = "gen"
  /\ Stream(text)
  /\ message' = Flatten(text)
  /\ content_str' = Flatten(text)
  /\ found' = HasMarker(Flatten(text))
  /\ Voicecheck(StreamEnd(text), Flatten(text), "handle", "speak_gen")
  /\ UNCHANGED <<mgrVars, cont, turns, request, parsed, outcome, dispatches, conts, voice>>
  /\ UNCHANGED <<bridgeVars, clientVars>>

\* Task(...).solve() raises at lines 460 or 515: nothing catches it.
GenerateRaises ==
  /\ pc \in {"greet", "gen"}
  /\ pc' = "crashed"
  /\ UNCHANGED <<mgrVars, turnVars, bridgeVars, streamVars, clientVars>>

\* incorporate_tool_results(..., tool_result), lines 323-341, called from the
\* place `level` of handle_tool_execution (1: line 404, 2: lines 410 and 415,
\* 3: line 420): the state is reset and the generation of line 342 is next.
IncorporateM_OnlyOnSuccess(level, failure, text) ==
  IF failure
  THEN /\ cont' = NoCont
       /\ stream_state' = ResetState
       /\ pc' = "input"
  ELSE /\ cont' = [level |-> level, failure |-> failure, tool_result |-> text,
                   original_request |-> request, partial_response |-> content_str]
       /\ stream_state' = ResetState
       /\ pc' = "cont"

\* An incorporate_tool_results that sets stream and leaves the buffer.
IncorporateM_NoReset(level, failure, text) ==
  /\ cont' = [level |-> level, failure |-> failure, tool_result |-> text,
              original_request |-> request, partial_response |-> content_str]
  /\ stream_state' = [stream_state EXCEPT !.stream = "true"]
  /\ pc' = "cont"

\* The three arguments are those of the four calls: original_request is the
\* request of line 516, partial_response is content_str, the whole text of the
\* turn's first generation.
Incorporate(level, failure, text) ==
  /\ cont' = [level |-> level, failure |-> failure, tool_result |-> text,
              original_request |-> request, partial_response |-> content_str]
  /\ stream_state' = ResetState
  /\ pc' = "cont"

\* A handler that lets the exception of the tool call through.
OnToolErrorM_Propagate(tool_error) ==
  /\ pc' = "crashed"
  /\ UNCHANGED <<cont, stream_state>>

\* lines 405-410: except Exception as tool_error.
OnToolError(tool_error) == Incorporate(2, TRUE, tool_error)

\* A guard that lets the turn end only where there is no manager.
SkipM_OnlyWithoutManager(stream) == ~mcp_manager

\* line 392: if not mcp_manager or stream_state["stream"] == "true".
Skip(stream) == ~mcp_manager \/ stream = "true"

\* A branch that ends the turn where no call was found.
OnNoToolM_Return ==
  /\ pc' = "input"
  /\ UNCHANGED <<cont, stream_state>>

\* lines 411-415: parse_tool_call found no call.
OnNoTool == Incorporate(2, TRUE, "Tool not found")

\* handle_tool_execution, lines 372-415, up to the call of the bridge.
HandleToolExecution ==
  /\ pc = "handle"
  /\ LET forced == HasMarker(content_str) /\ stream_state.stream = "true"
         stream1 == IF forced THEN "false" ELSE stream_state.stream
         p == ParseToolCall(content_str)
     IN  IF Skip(stream1)
         THEN /\ stream_state' = [stream_state EXCEPT !.stream = stream1]
              /\ pc' = "input"
              /\ UNCHANGED <<cont, parsed, outcome, dispatches, call, nextId, request_queue>>
         ELSE IF p.tool = <<>>
         THEN /\ OnNoTool
              /\ parsed' = p
              /\ UNCHANGED <<outcome, dispatches, call, nextId, request_queue>>
         ELSE IF Route(p.tool) = "none"
         THEN /\ OnToolError("ValueError: not found")
              /\ parsed' = p
              /\ outcome' = "raised"
              /\ dispatches' = dispatches + 1
              /\ UNCHANGED <<call, nextId, request_queue>>
         ELSE /\ call' = [NoCall EXCEPT !.phase = "wait", !.b = Route(p.tool),
                                        !.req = Req(p.tool, nextId + 1)]
              /\ parsed' = p
              /\ nextId' = nextId + 1
              /\ dispatches' = dispatches + 1
              /\ pc' = "in_call"
              /\ UNCHANGED <<cont, outcome, stream_state, request_queue>>
  /\ UNCHANGED <<mgrVars, content_str, turns, found, request, conts, voiceVars>>
  /\ UNCHANGED <<wpc, initialized, tools, response_queue, cur, died, errors>>
  /\ UNCHANGED <<printed, chunks, flips, ncalls, nshut>>

\* lines 402-410: the call of the bridge has returned or raised.
ToolReturned ==
  /\ pc = "in_call"
  /\ call.phase \in {"returned", "raised"}
  /\ IF call.phase = "returned"
     THEN Incorporate(1, FALSE, call.value.kind)
     ELSE OnToolError(call.error)
  /\ outcome' = IF call.phase = "returned" THEN call.value.kind ELSE "raised"
  /\ call' = NoCall
  /\ UNCHANGED <<mgrVars, content_str, turns, found, request, parsed, dispatches, conts>>
  /\ UNCHANGED voiceVars
  /\ UNCHANGED <<bridgeVars, printed, chunks, flips, nextId, ncalls, nshut>>

\* lines 342-343: the continuation generation, whose value goes to a local
\* variable, then voicecheck(); handle_tool_execution returns and the turn is
\* over.
Continue(text) ==
  /\ pc = "cont"
  /\ conts' = conts + 1
  /\ Stream(text)
  /\ Voicecheck(StreamEnd(text), message, "input", "speak_cont")
  /\ UNCHANGED <<mgrVars, content_str, cont, turns, found, request, parsed, outcome, dispatches>>
  /\ UNCHANGED <<voice, message, bridgeVars, clientVars>>

\* line 342 raises (before a chunk is streamed).  From line 404 the handler of
\* line 405 calls incorporate_tool_results again; from there, and from line
\* 415, the handler of line 416 calls it a last time; from line 420 the
\* exception leaves handle_tool_execution.
ContinueRaises ==
  /\ pc = "cont"
  /\ conts' = conts + 1
  /\ IF cont.level = 3
     THEN /\ pc' = "crashed"
          /\ UNCHANGED <<cont, stream_state>>
     ELSE Incorporate(cont.level + 1, TRUE, "generation error")
  /\ UNCHANGED <<mgrVars, content_str, turns, found, request, parsed, outcome, dispatches>>
  /\ UNCHANGED <<voiceVars, bridgeVars, clientVars, printed, chunks, flips>>

\* shutdown_all, lines 249-250: the next client's shutdown(): line 191 puts the
\* sentinel, line 192 joins.
ShutdownNext ==
  /\ pc = "closing"
  /\ call.phase = "idle"
  /\ todo # <<>>
  /\ request_queue' = [request_queue EXCEPT ![Head(todo)] = Append(@, Sentinel)]
  /\ call' = [NoCall EXCEPT !.phase = "join", !.b = Head(todo)]
  /\ todo' = Tail(todo)
  /\ UNCHANGED <<pc, mcp_manager, clients, all_tools, turnVars, streamVars>>
  /\ UNCHANGED <<wpc, initialized, tools, response_queue, cur, died, errors>>
  /\ UNCHANGED <<nextId, ncalls, nshut>>

\* line 193: shutdown() returns.
ShutdownReturned ==
  /\ pc = "closing"
  /\ call.phase = "joined"
  /\ call' = NoCall
  /\ UNCHANGED <<mainVars, bridgeVars, streamVars, nextId, ncalls, nshut>>

\* lines 191-192 raise (the join is interrupted): nothing in shutdown_all or
\* around line 520 catches it, and the program ends with the clients left in
\* todo not shut down.
ShutdownRaises ==
  /\ pc = "closing"
  /\ call.phase = "join"
  /\ pc' = "aborted"
  /\ call' = NoCall
  /\ UNCHANGED <<mgrVars, turnVars, bridgeVars, streamVars, nextId, ncalls, nshut>>

\* lines 251-253 and 522.
ShutdownDone ==
  /\ pc = "closing"
  /\ call.phase = "idle"
  /\ todo = <<>>
  /\ clients' = <<>>
  /\ all_tools' = [t \in ToolNames |-> "none"]
  /\ pc' = "exited"
  /\ UNCHANGED <<mcp_manager, todo, turnVars, bridgeVars, streamVars, clientVars>>

\* Lines 443-451 have run: mcp_manager is an MCPManager about to initialize, or
\* None (use_mcp is off).
Init ==
  /\ InitStreamVars
  /\ InitBridges({})
  /\ InitClient
  /\ mcp_manager \in BOOLEAN
  /\ pc = IF mcp_manager THEN "mcp_init" ELSE "greet"
  /\ todo = IF mcp_manager THEN ConfigOrder ELSE <<>>
  /\ clients = <<>>
  /\ all_tools = [t \in ToolNames |-> "none"]
  /\ content_str = <<>>
  /\ cont = NoCont
  /\ turns = 0
  /\ found = FALSE
  /\ request = NoRequest
  /\ parsed = NoParse
  /\ outcome = "none"
  /\ voice = FALSE
  /\ message = <<>>
  /\ spoken = <<>>
  /\ dispatches = 0
  /\ conts = 0

\* CallTick and CallTimeout are left out: the manager calls only bridges it has
\* recorded, whose event is set, so the wait of line 184 returns at once.
Next ==
  \/ \E p \in Providers : WorkerHandshake(p)
  \/ \E p \in Providers : WorkerListTools(p)
  \/ \E p \in Providers : WorkerReady(p)
  \/ \E p \in Providers : WorkerHang(p)
  \/ \E p \in Providers : WorkerDie(p)
  \/ \E p \in Providers : WorkerGet(p)
  \/ \E p \in Providers : WorkerSessionReturns(p)
  \/ \E p \in Providers : WorkerSessionRaises(p)
  \/ \E p \in Providers : WorkerSessionHangs(p)
  \/ \E p \in Providers : WorkerPutResult(p)
  \/ \E p \in Providers : WorkerPutError(p)
  \/ MgrConnect
  \/ MgrConnectRaises
  \/ MgrRegister
  \/ MgrTick
  \/ MgrTimeout
  \/ MgrDone
  \/ \E text \in GenTexts : Greet(text)
  \/ \E line \in InputLines : ReadBye(line)
  \/ \E line \in InputLines : ReadRequest(line)
  \/ \E text \in GenTexts : Generate(text)
  \/ GenerateRaises
  \/ HandleToolExecution
  \/ CallReady
  \/ CallGet
  \/ ToolReturned
  \/ \E text \in GenTexts : Continue(text)
  \/ ContinueRaises
  \/ ShutdownNext
  \/ ShutdownJoin
  \/ ShutdownReturned
  \/ ShutdownRaises
  \/ ShutdownDone

Spec == Init /\ [][Next]_vars

\* ------------------------------------------------------ the same, with voice
InitVoice ==
  /\ InitStreamVars
  /\ InitBridges({})
  /\ InitClient
  /\ mcp_manager \in BOOLEAN
  /\ pc = IF mcp_manager THEN "mcp_init" ELSE "greet"
  /\ todo = IF mcp_manager THEN ConfigOrder ELSE <<>>
  /\ clients = <<>>
  /\ all_tools = [t \in ToolNames |-> "none"]
  /\ content_str = <<>>
  /\ cont = NoCont
  /\ turns = 0
  /\ found = FALSE
  /\ request = NoRequest
  /\ parsed = NoParse
  /\ outcome = "none"
  /\ voice = TRUE
  /\ message = <<>>
  /\ spoken = <<>>
  /\ dispatches = 0
  /\ conts = 0

NextVoice ==
  \/ Next
  \/ SpeechDone

SpecVoice == InitVoice /\ [][NextVoice]_vars

\* -------------------------------------------------- the callback, on its own
InitStream == InitStreamVars /\ InitBridges({}) /\ InitClient /\ InitMainOff

\* One call of streaming_callback by the running generation.
Feed(chunk) ==
  /\ LET r == Callback(stream_state, chunk)
     IN  /\ stream_state' = r.state
         /\ printed' = printed \o r.writes
         /\ flips' = flips + (IF stream_state.stream = "true" /\ r.state.stream = "false"
                              THEN 1 ELSE 0)
  /\ chunks' = Append(chunks, chunk)
  /\ UNCHANGED <<bridgeVars, clientVars, mainVars>>

NextStream == \E chunk \in ChunksUpTo(MaxLen - Len(stream_state.buffer)) : Feed(chunk)

SpecStream == InitStream /\ [][NextStream]_vars

Fed == Flatten(chunks)

\* ================================================================ claims

\* C1 (read up to surrounding whitespace, which strip() removes): once the
\* marker is in the text fed since the reset, stream has gone from "true" to
\* "false" exactly once and the terminal shows the text that precedes the marker.
C1_VisibleIsPrefix ==
  HasMarker(Fed) =>
    /\ flips = 1
    /\ stream_state.stream = "false"
    /\ Strip(Visible(printed)) = Strip(SplitFirst(Fed))

\* C2: while the text fed since the reset holds no marker, stream stays "true"
\* and the writes to the output are the chunks, each once, in order, unmodified.
C2_NoMarkerForwarded ==
  ~HasMarker(Fed) =>
    /\ stream_state.stream = "true"
    /\ flips = 0
    /\ printed = chunks

\* Three chunks without the marker, both code points of the marker among them.
C2_Witness ==
  /\ ~HasMarker(Fed)
  /\ Len(chunks) = 3
  /\ \E i, j \in 1..Len(Fed) : Fed[i] = "Z" /\ Fed[j] = "V"

\* The turn is over: the main thread is past handle_tool_execution.
TurnOver == turns > 0 /\ pc \in {"input", "closing", "exited", "crashed"}

\* C3 as claimed: no turn whose generated text holds the marker ends without a
\* continuation generation having been started.
C3_MarkerTurnContinues ==
  (TurnOver /\ found) => conts >= 1

\* C3 as amended: with an MCP manager, a turn whose text holds the marker has
\* dispatched the call once if the text holds a well-formed one, and has
\* started a continuation in any case, with stream_state reset when the
\* continuation is about to stream; without a manager the turn ends with no
\* dispatch and no continuation.
C3_MarkerTurnContinuesWithManager ==
  /\ (TurnOver /\ found /\ mcp_manager) =>
        /\ conts >= 1
        /\ (ParseToolCall(content_str).tool # <<>> => dispatches = 1)
  /\ (TurnOver /\ found /\ ~mcp_manager) => (conts = 0 /\ dispatches = 0)
  /\ (pc = "cont") => stream_state = ResetState

\* A turn that called a tool with success and has finished its continuation.
C3_Witness ==
  /\ pc = "input"
  /\ found
  /\ dispatches = 1
  /\ conts = 1
  /\ cont.level = 1
  /\ ~cont.failure
  /\ cont.tool_result = "result"

\* mcp_manager.call_tool is about to be called, or has been and the bridge is
\* still to answer.
Dispatching ==
  /\ pc = "handle"
  /\ mcp_manager
  /\ stream_state.stream = "false" \/ HasMarker(content_str)
  /\ ParseToolCall(content_str).tool # <<>>

\* C4: when the dispatch raises (ValueError of the registry, TimeoutError of the
\* bridge), the main thread's next step starts a continuation whose tool result
\* is that failure, with nothing left to wait for; only a generation that
\* raises ends the program.
C4_DispatchErrorContinues ==
  /\ [][(/\ Dispatching
         /\ Route(ParseToolCall(content_str).tool) = "none"
         /\ pc' # pc) =>
          /\ pc' = "cont"
          /\ cont'.level = 2 /\ cont'.failure
          /\ cont'.tool_result = "ValueError: not found"]_vars
  /\ [][(pc = "in_call" /\ call.phase = "raised" /\ pc' # pc) =>
          /\ pc' = "cont"
          /\ cont'.level = 2 /\ cont'.failure
          /\ cont'.tool_result = call.error]_vars
  /\ [][(pc' = "crashed" /\ pc # "crashed") => pc \in {"greet", "gen", "cont"}]_vars
  /\ [](pc = "cont" => call.phase = "idle")

\* A turn whose tool was not found and whose continuation has been streamed.
C4_Witness ==
  /\ pc = "input"
  /\ cont.level = 2
  /\ cont.failure
  /\ cont.tool_result = "ValueError: not found"
  /\ conts = 1
  /\ printed # <<>>

\* C10: MCPManager.call_tool with a name all_tools does not hold raises at once:
\* the step puts nothing on a queue, takes nothing from one, starts no wait and
\* leaves clients and all_tools as they were.
C10_UnknownToolFailsAtOnce ==
  [][(/\ Dispatching
      /\ all_tools[ParseToolCall(content_str).tool] = "none"
      /\ pc' # pc) =>
       /\ cont'.tool_result = "ValueError: not found"
       /\ request_queue' = request_queue
       /\ response_queue' = response_queue
       /\ call' = NoCall
       /\ clients' = clients
       /\ all_tools' = all_tools]_vars

\* The registry holds tools, and a name it does not hold has been dispatched.
C10_Witness ==
  /\ pc = "cont"
  /\ dispatches = 1
  /\ cont.tool_result = "ValueError: not found"
  /\ clients # <<>>
  /\ \E t \in ToolNames : all_tools[t] # "none"

\* C5: a call of call_tool returns the value the worker produced for the request
\* that this call enqueued.
C5_ReturnsOwnResult ==
  call.phase = "returned" => call.value.for = call.req.id

\* C6: when session.call_tool raised, the worker's next step puts an error result
\* for that request and is back at the top of the loop; the caller gets that
\* result as the value of its own call, and call_tool raises nothing but the
\* TimeoutError of the readiness wait.
C6_SessionErrorIsAResult ==
  /\ [][\A p \in Providers :
          (wpc[p] = "call_raised" /\ wpc'[p] # "call_raised") =>
            /\ wpc'[p] = "serving"
            /\ response_queue'[p] = Append(response_queue[p], Result("error", cur[p]))]_vars
  /\ [](call.phase = "raised" => call.error = "TimeoutError")
  /\ []((call.phase = "returned" /\ call.value.kind = "error") =>
          /\ call.value.for = call.req.id
          /\ call.req.id \in errors[call.b])
  /\ [](call.phase = "get" /\ call.req.id \in errors[call.b] /\ wpc[call.b] = "serving" =>
          response_queue[call.b] # <<>>)

\* The session raised for request 1 and request 2 has been answered.
C6_Witness ==
  /\ 1 \in errors["p1"]
  /\ call.phase = "returned"
  /\ call.req.id = 2
  /\ call.value = Result("result", call.req)

\* C7: no call_tool on a bridge whose worker left through the handler of line 178
\* waits on an empty response_queue (nothing is ever put on it again).
C7_DeadBridgeAnswers ==
  ~(/\ call.phase = "get"
    /\ died[call.b]
    /\ wpc[call.b] = "stopped"
    /\ response_queue[call.b] = <<>>)

\* C8: call_tool raises only TimeoutError, only after the whole readiness bound
\* with the event unset, and then its request is not on request_queue; and at
\* the bound with the event unset the call does nothing but raise.
C8_TimeoutWithoutPut ==
  /\ [](call.phase = "raised" =>
          /\ call.error = "TimeoutError"
          /\ call.waited = ReadyTimeout
          /\ call.puts = 0
          /\ \A i \in 1..Len(request_queue[call.b]) : request_queue[call.b][i] # call.req)
  /\ [][(call.phase = "wait" /\ call'.phase = "raised") => ~initialized[call.b]]_vars
  /\ [][(/\ call.phase = "wait"
         /\ ~initialized[call.b]
         /\ call.waited = ReadyTimeout
         /\ call' # call) => call'.phase = "raised"]_vars

\* A call has timed out on a bridge whose worker never set the event.
C8_Witness ==
  /\ call.phase = "raised"
  /\ ~initialized[call.b]
  /\ wpc[call.b] = "hung"

\* C9: shutdown() always returns: it never joins a thread that cannot end.
C9_ShutdownReturns ==
  ~(call.phase = "join" /\ wpc[call.b] = "hung")

\* A text of the form marker, tool name, "(", object text, ")".
IsCall(c, name, js) ==
  /\ name # <<>>
  /\ \A k \in 1..Len(name) : name[k] \in NameChars
  /\ Len(js) >= 2 /\ js[1] = "{" /\ js[Len(js)] = "}"
  /\ c = Marker \o name \o <<"(">> \o js \o <<")">>

\* The same cut short in the argument text: the object is open and nothing
\* closes the call.
IsTruncatedCall(c, name) ==
  /\ name # <<>>
  /\ \A k \in 1..Len(name) : name[k] \in NameChars
  /\ Len(c) >= Len(name) + 4
  /\ SubText(c, 1, Len(name) + 4) = Marker \o name \o <<"(", "{">>
  /\ ~\E j \in 1..(Len(c) - 1) : c[j] = "}" /\ c[j + 1] = ")"

Names(c) == {SubText(c, 3, n) : n \in 3..Len(c)}
Objects(c) == {SubText(c, i, Len(c) - 1) : i \in 1..(Len(c) - 1)}

\* The part of C11 on whole calls: the name is returned, with the parsed
\* arguments where the object text is valid JSON and with {} where it is not.
C11_WholeCallParsed ==
  pc = "parse_done" =>
    \A name \in Names(content_str), js \in Objects(content_str) :
      IsCall(content_str, name, js) =>
        /\ parsed.tool = name
        /\ ValidJson(js) => parsed.args = Members(js)
        /\ ~ValidJson(js) => parsed.args = <<>>

\* C11: parse_tool_call on marker + name + "(" + JSON object + ")" returns the
\* name and the parsed arguments; on a call whose argument text is cut short or
\* is not valid JSON it returns the same name with empty arguments.
C11_ParseToolCall ==
  /\ C11_WholeCallParsed
  /\ pc = "parse_done" =>
       \A name \in Names(content_str) :
         IsTruncatedCall(content_str, name) =>
           parsed = [tool |-> name, args |-> <<>>]

\* C12: a continuation whose text holds the marker is followed, in the same
\* turn, by a further dispatch (where the text holds a call) and a further
\* continuation: no turn is over with the marker in the text of its last
\* continuation.
C12_ContinuationFollowsProtocol ==
  (pc = "input" /\ turns > 0 /\ conts >= 1) => ~HasMarker(Flatten(chunks))

\* server_name in self.clients
InClients(p) == \E k \in 1..Len(clients) : clients[k] = p

C14_FailedStartupExcluded ==
  \A p \in Providers :
    (died[p] /\ tools[p] = {}) =>
      /\ ~InClients(p)
      /\ \A t \in ToolNames : all_tools[t] # p

\* C15: shutdown_all is not left while a bridge of clients has still to be
\* shut down, whatever shutdown() of an earlier bridge did.
C15_ShutdownAllVisitsAll ==
  pc \in {"exited", "aborted"} => todo = <<>>

\* C16: the main thread never waits for the result of a tool call that the
\* provider will never answer.
C16_CallIsBounded ==
  ~(/\ pc = "in_call"
    /\ call.phase = "get"
    /\ wpc[call.b] = "call_hung"
    /\ cur[call.b] = call.req
    /\ response_queue[call.b] = <<>>)

\* C17: a generation that raises during a turn does not end the program.
C17_GenerationFailureSurvived ==
  ~(turns > 0 /\ pc = "crashed")

\* handle_tool_execution is entered with a text that holds the marker but no
\* call matching the pattern.
MarkerWithoutCall ==
  /\ pc = "handle"
  /\ found
  /\ ParseToolCall(content_str).tool = <<>>

\* C18 as claimed: on a text with the marker and no well-formed call,
\* handle_tool_execution invokes no tool and starts a continuation with the
\* 'Tool not found' failure description.
C18_NoCallMeansNotFound ==
  [][(MarkerWithoutCall /\ pc' # pc) =>
       /\ pc' = "cont"
       /\ cont'.failure
       /\ cont'.tool_result = "Tool not found"
       /\ dispatches' = 0
       /\ call' = NoCall
       /\ request_queue' = request_queue]_vars

\* C18 as amended: the same where there is an MCP manager; without one the
\* turn ends with no tool invoked and no continuation.
C18_NoCallMeansNotFoundWithManager ==
  /\ [][(MarkerWithoutCall /\ mcp_manager /\ pc' # pc) =>
          /\ pc' = "cont"
          /\ cont'.failure
          /\ cont'.level = 2
          /\ cont'.tool_result = "Tool not found"
          /\ stream_state' = ResetState
          /\ dispatches' = 0
          /\ call' = NoCall
          /\ request_queue' = request_queue]_vars
  /\ [][(MarkerWithoutCall /\ ~mcp_manager /\ pc' # pc) =>
          /\ pc' = "input"
          /\ cont' = cont
          /\ dispatches' = 0
          /\ call' = NoCall]_vars

\* The marker was streamed with no call after it, the registry holds tools, and
\* the 'Tool not found' continuation is about to be generated.
C18_Witness ==
  /\ pc = "cont"
  /\ found
  /\ parsed.tool = <<>>
  /\ stream_state = ResetState
  /\ cont.tool_result = "Tool not found"
  /\ dispatches = 0
  /\ clients # <<>>

\* C19: a turn whose generation held no marker is over with no call of
\* MCPManager.call_tool, no continuation, stream still "true" and the chunks of
\* the generation, as streamed, for its response.
C19_NoMarkerTurnEnds ==
  /\ [][(pc = "handle" /\ ~found /\ pc' # pc) =>
          /\ pc' = "input"
          /\ call' = NoCall
          /\ request_queue' = request_queue
          /\ UNCHANGED <<cont, dispatches, conts, stream_state, printed>>]_vars
  /\ []((TurnOver /\ ~found) =>
          /\ dispatches = 0
          /\ conts = 0
          /\ stream_state.stream = "true"
          /\ printed = chunks
          /\ Flatten(printed) = content_str)

\* A turn without a marker is over, with a manager whose registry holds tools.
C19_Witness ==
  /\ pc = "input"
  /\ turns > 0
  /\ ~found
  /\ content_str # <<>>
  /\ mcp_manager
  /\ \E t \in ToolNames : all_tools[t] # "none"

\* sub in s
Contains(s, sub) ==
  \E i \in 0..(Len(s) - Len(sub)) : SubText(s, i + 1, i + Len(sub)) = sub

\* C20: the prompt of a continuation about to be generated holds the request
\* of the turn, the text shown before the marker, and the outcome of the tool
\* call: what the bridge returned where the call returned, a failure
\* description where it raised or was not made.
C20_PromptHoldsOutcome ==
  pc = "cont" =>
    /\ cont.original_request = request
    /\ Contains(cont.partial_response, Strip(SplitFirst(content_str)))
    /\ outcome \in {"result", "error", "init_error"} =>
         (cont.tool_result = outcome /\ ~cont.failure)
    /\ outcome \in {"raised", "none"} => cont.failure

\* C21: whenever a generation is about to start (the greeting, the first
\* generation of a turn, a continuation), stream is "true" and the buffer is
\* empty.
C21_GenerationStartsReset ==
  pc \in {"greet", "gen", "cont"} => stream_state = [stream |-> "true", buffer |-> <<>>]

\* A continuation is about to start after a generation that the marker
\* suspended, and a request is about to be answered after such a turn.
C21_Witness ==
  /\ pc = "cont"
  /\ HasMarker(content_str)
  /\ cont.level = 1
  /\ turns = 2

\* C22: when the line read is the exit word, in mixed case and with white
\* space around it, the main loop is left: shutdown_all is next where there is
\* a manager and the end of the program where there is none; from then on no
\* generation and no tool call is started, and the program ends only when
\* shutdown_all has visited every client.
C22_ExitWordEndsSession ==
  /\ [][(/\ pc = "input"
         /\ request' # request
         /\ request'.text = <<SP, "B", "y", "E", SP>>) =>
          pc' = IF mcp_manager THEN "closing" ELSE "exited"]_vars
  /\ [][(pc \in {"closing", "exited", "aborted"}) =>
          /\ pc' \in {"closing", "exited", "aborted"}
          /\ UNCHANGED <<chunks, printed, turns, dispatches, conts, nextId, spoken>>]_vars
  /\ [][(pc = "closing" /\ pc' = "exited") =>
          /\ todo = <<>>
          /\ call.phase = "idle"
          /\ clients' = <<>>]_vars
  /\ [](pc = "exited" => (clients = <<>> /\ \A t \in ToolNames : all_tools[t] = "none"))

\* After a turn the user entered the exit word and the program has ended,
\* having shut down a bridge that was serving.
C22_Witness ==
  /\ pc = "exited"
  /\ mcp_manager
  /\ turns >= 1
  /\ request.text = <<SP, "B", "y", "E", SP>>
  /\ \E p \in Providers : wpc[p] = "stopped" /\ ~died[p]

\* The positions in clients of the servers that list t.
Listing(t) == {k \in 1..Len(clients) : t \in tools[clients[k]]}

\* C23: a call of a registered name is addressed to the bridge all_tools maps
\* the name to, a recorded client; its request is put on that bridge's
\* request_queue and on no other; what the bridge returns, an error result
\* included, is what the tool result of the turn is; and the server a name is
\* mapped to is the last of the recorded clients, in the order of the
\* configuration, that lists it.
C23_RoutesToOwner ==
  /\ [][(pc = "handle" /\ pc' = "in_call") =>
          /\ call'.req.tool = ParseToolCall(content_str).tool
          /\ call'.b = all_tools[call'.req.tool]
          /\ InClients(call'.b)
          /\ request_queue' = request_queue]_vars
  /\ [][(pc = "in_call" /\ \E p \in Providers : Len(request_queue'[p]) > Len(request_queue[p])) =>
          request_queue' = [request_queue EXCEPT ![call.b] = Append(@, call.req)]]_vars
  /\ [][(pc = "in_call" /\ call.phase = "returned" /\ pc' # pc) =>
          /\ cont'.tool_result = call.value.kind
          /\ ~cont'.failure
          /\ outcome' = call.value.kind]_vars
  /\ [](\A t \in ToolNames : all_tools[t] # "none" =>
          /\ Listing(t) # {}
          /\ all_tools[t] = clients[Max(Listing(t))])
  /\ [](dispatches <= 1 /\ call.puts <= 1)

\* Both servers are recorded, both list "s", and a call of "s" has come back
\* from the second with an error result.
C23_Witness ==
  /\ pc = "in_call"
  /\ clients = <<"p1", "p2">>
  /\ <<"s">> \in tools["p1"]
  /\ call.phase = "returned"
  /\ call.req.tool = <<"s">>
  /\ call.b = "p2"
  /\ call.value.kind = "error"
  /\ request_queue["p1"] = <<>>

\* The main thread is inside f5: the speech it requested is in progress.
Speaking == pc \in {"speak_greet", "speak_gen", "speak_cont"}

\* C24: speech is requested for a generation only when no continuation is to
\* follow it in the turn, and the main thread does not wait for the speech it
\* requested: it is never inside f5.
C24_SpeechDoesNotBlock ==
  /\ (pc = "speak_gen" => ~found)
  /\ ~Speaking

IsRequest(r) == ~r.stop
IsAnswer(v) == v.for # 0

\* The requests of bridge p that are not resolved: waiting on request_queue,
\* with the worker, or answered on response_queue and not yet collected.
Unresolved(p) ==
  Len(SelectSeq(request_queue[p], IsRequest))
  + (IF wpc[p] \in {"calling", "call_returned", "call_raised", "call_hung"} THEN 1 ELSE 0)
  + Len(SelectSeq(response_queue[p], IsAnswer))

\* C25: a tool call is in progress only between the generation that emitted
\* it and the continuation; while a generation is about to run no call is in
\* progress and no bridge has a request left; and no bridge ever has more than
\* one unresolved request.
C25_OneInFlight ==
  /\ (call.phase \in {"wait", "get", "returned", "raised"} => pc = "in_call")
  /\ (pc \in {"greet", "gen", "cont"} =>
        /\ call.phase = "idle"
        /\ \A p \in Providers : Unresolved(p) = 0)
  /\ \A p \in Providers : Unresolved(p) <= 1

\* C26: the event of a bridge is set only when self.tools holds the catalog of
\* its provider; the worker has dequeued nothing while the event is unset; and
\* every recorded client has its whole catalog.
C26_ReadyMeansListed ==
  \A p \in Providers :
    /\ initialized[p] => tools[p] = Catalog(p)
    /\ ~initialized[p] => (cur[p] = NoReq /\ wpc[p] \notin {"serving", "calling"})
    /\ InClients(p) => tools[p] = Catalog(p)

\* C27: once stream is "false", a call of the callback leaves it "false",
\* writes nothing and appends its chunk to the buffer; and since the reset the
\* detection branch (the line clear) has run at most once.
C27_SuspendedStaysSilent ==
  /\ [][(stream_state.stream = "false") =>
          /\ stream_state'.stream = "false"
          /\ printed' = printed
          /\ flips' = flips
          /\ stream_state'.buffer = stream_state.buffer \o chunks'[Len(chunks')]]_vars
  /\ [](flips <= 1)
  /\ [](Cardinality({i \in 1..Len(printed) : printed[i] = <<CLR>>}) <= 1)
  /\ [](stream_state.stream = "false" => HasMarker(stream_state.buffer))

\* The marker came in the first chunk and again in the third.
C27_Witness ==
  /\ stream_state.stream = "false"
  /\ Len(chunks) = 3
  /\ HasMarker(chunks[1])
  /\ HasMarker(chunks[3])
  /\ stream_state.buffer = Fed

\* C28: in a turn whose text holds the marker, with an MCP manager, the tool
\* is invoked at most once and one continuation generation is started, never
\* a second, whatever the tool call and the continuation do.
C28_OneDispatchOneContinuation ==
  (found /\ mcp_manager) =>
    /\ dispatches <= 1
    /\ conts <= 1
    /\ TurnOver => conts = 1

\* C29: once shutdown_all has returned, every thread that initialize started
\* has ended, and clients and all_tools are empty.
C29_NoThreadLeft ==
  (pc = "exited" /\ mcp_manager) =>
    /\ \A p \in Providers : wpc[p] \in {"none", "stopped"}
    /\ clients = <<>>
    /\ \A t \in ToolNames : all_tools[t] = "none"

\* C30: the text handed to f5 after a continuation is the cleaned text of that
\* continuation, and f5 is called only after a generation that left the
\* stream live.
C30_SpeaksTheContinuation ==
  /\ pc = "speak_cont" => spoken[Len(spoken)] = CleanFunctionText(Flatten(chunks))
  /\ Speaking => stream_state.stream = "true"

====
